---- MODULE Spec2Model ----
(***************************************************************************)
(* Model of the recommendation backend (src/backend/recommend.py and       *)
(* src/backend/main.py): the parquet files read at startup, the cached     *)
(* model_data dictionary, the ranking / blending / cold-start functions    *)
(* and the HTTP endpoints built on them.                                   *)
(*                                                                         *)
(* Conventions                                                             *)
(*  - An id is a pair <<form, k>>: <<"int", 7>> is the integer 7 and       *)
(*    <<"str", 7>> the string "7".  Str is Python's str() / astype(str).   *)
(*  - A DataFrame of predictions is the sequence of its rows in file       *)
(*    order, each row [user_id, movie_id, rating]; user_id is the index.   *)
(*  - A function result is [exc, movie_id]: exc = "" for a normal return   *)
(*    of the one-column frame movie_id, otherwise the exception raised.    *)
(*  - content_weight is counted in halves: 1 is 0.5, 2 is 1.0, so that     *)
(*    (1 - content_weight) is 2 - w and every score is scaled by 2.        *)
(*  - load_calls is the set of the calls of load_parquet_with_retry made   *)
(*    so far, each [file, caller].                                         *)
(*  - predictions_dict is the dictionary src/app.py unpickles (user id to  *)
(*    list of <<movie_id, rating>>), empty where the backend runs alone.   *)
(*  - earlier is the sequence of the calls remembered so far, each         *)
(*    [request, response], kept to compare a call with an earlier one.     *)
(***************************************************************************)
EXTENDS Integers, Sequences, FiniteSets, TLC

VARIABLES files, readable, cached_model_data, phase, request, response,
          load_calls, pc, futures, attempt, sleeps, reads,
          predictions_dict, earlier

vars == <<files, readable, cached_model_data, phase, request, response,
          load_calls, pc, futures, attempt, sleeps, reads,
          predictions_dict, earlier>>

(* position of the thread inside get_hybrid_recommendations with the state *)
(* of its two futures, and the loop state of load_parquet_with_retry       *)
frame_vars == <<pc, futures, attempt, sleeps, reads>>

(* ------------------------------ bounds --------------------------------- *)
MaxUser == 2
MaxItem == 2
MaxRating == 2
MaxRows == 2
MaxN == 3
MaxCatalogue == 3
MaxLiked == 2
MaxPosted == 1
MaxRetries == 3

UserKeys == 1..MaxUser
ItemKeys == 1..MaxItem
CatalogueKeys == 1..MaxCatalogue
Ratings == 1..MaxRating
NValues == -1..MaxN
Forms == {"int", "str"}

(* ------------------------------ ids ------------------------------------ *)
Str(id) == <<"str", id[2]>>

StrId(k) == <<"str", k>>

(* lexicographic order of the decimal strings of small numbers *)
RECURSIVE Digits(_)
Digits(k) == IF k < 10 THEN <<k>> ELSE Append(Digits(k \div 10), k % 10)

RECURSIVE SeqLess(_, _)
SeqLess(a, b) ==
    IF a = <<>> THEN b # <<>>
    ELSE IF b = <<>> THEN FALSE
    ELSE IF Head(a) # Head(b) THEN Head(a) < Head(b)
    ELSE SeqLess(Tail(a), Tail(b))

StrLess(x, y) == SeqLess(Digits(x[2]), Digits(y[2]))

(* ------------------------------ sequences ------------------------------ *)
Range(s) == {s[i] : i \in DOMAIN s}

Min2(a, b) == IF a < b THEN a ELSE b

RemoveAt(s, i) == SubSeq(s, 1, i - 1) \o SubSeq(s, i + 1, Len(s))

NoDup(s) == \A i, j \in DOMAIN s : i # j => s[i] # s[j]

BoundedSeq(S, k) == UNION {[1..m -> S] : m \in 0..k}

(* ------------------------------ results -------------------------------- *)
Frame(ids) == [exc |-> "", movie_id |-> ids]

EmptyFrame == Frame(<<>>)

Raise(e) == [exc |-> e, movie_id |-> <<>>]

IsEmpty(r) == r.exc = "" /\ r.movie_id = <<>>

(* ------------------------------ pandas --------------------------------- *)
(* df.index membership: label in df.index *)
InIndex(df, label) == \E i \in DOMAIN df : df[i].user_id = label

(* df.loc[label]: the rows carrying the label, in frame order.  A label     *)
(* that occurs once yields a Series (the row itself), not a DataFrame.      *)
LocRows(df, label) == SelectSeq(df, LAMBDA r : r.user_id = label)

LocIsSeries(df, label) == Len(LocRows(df, label)) = 1

(* position of the first row holding the largest value of column col *)
FirstMax(rows, col) ==
    CHOOSE i \in DOMAIN rows :
        /\ \A j \in DOMAIN rows : rows[j][col] <= rows[i][col]
        /\ \A j \in 1..(i - 1) : rows[j][col] < rows[i][col]

(* DataFrame.nlargest(n, col), keep='first': the n rows of largest col in  *)
(* descending order, equal values in their original order; n <= 0 selects  *)
(* nothing.                                                                 *)
RECURSIVE nlargest(_, _, _)
nlargest(rows, n, col) ==
    IF n <= 0 \/ rows = <<>> THEN <<>>
    ELSE LET i == FirstMax(rows, col)
         IN  <<rows[i]>> \o nlargest(RemoveAt(rows, i), n - 1, col)

MovieIds(rows) == [i \in DOMAIN rows |-> rows[i].movie_id]

(* ------------------------------ files ---------------------------------- *)
PredictionFileNames ==
    {"collab_predictions.parquet", "content_predictions.parquet",
     "current_ratings.parquet"}

FileNames ==
    PredictionFileNames \cup {"movie_genres.parquet", "top_100_movies.parquet"}

(* rows of a prediction / rating file whose id columns have dtype form *)
RawRows(form) ==
    [user_id : {<<form, u>> : u \in UserKeys},
     movie_id : {<<form, m>> : m \in ItemKeys},
     rating : Ratings]

(* one prediction per (user, movie) pair, as the batch jobs write them *)
DistinctPairs(rows) ==
    \A i, j \in DOMAIN rows :
        i # j => <<rows[i].user_id, rows[i].movie_id>>
                 # <<rows[j].user_id, rows[j].movie_id>>

(* the batch jobs write the predictions user by user *)
GroupedByUser(rows) ==
    \A i, j \in DOMAIN rows : i < j => rows[i].user_id[2] <= rows[j].user_id[2]

PredictionFiles ==
    UNION {{t \in BoundedSeq(RawRows(form), MaxRows) :
               DistinctPairs(t) /\ GroupedByUser(t)} :
           form \in Forms}

(* files with the rows of user 1 only, scored with the lowest or the       *)
(* highest rating                                                           *)
SourceFiles(form) ==
    {t \in BoundedSeq(RawRows(form), MaxRows) :
        /\ DistinctPairs(t)
        /\ \A i \in DOMAIN t :
               t[i].user_id = <<form, 1>> /\ t[i].rating \in {1, MaxRating}}

(* source files that list the catalogue in order *)
CatalogueOrder(t) == \A i \in DOMAIN t : t[i].movie_id[2] = i

(* genre indicator vectors of the feature table *)
FeatureVectors == {<<1, 0>>, <<0, 1>>}

GenreRows(form) ==
    [index : {<<form, m>> : m \in CatalogueKeys}, features : FeatureVectors]

(* item-indexed feature matrix, one row per item, written in item order *)
GenreFiles ==
    UNION {{t \in BoundedSeq(GenreRows(form), MaxCatalogue) :
               \A i, j \in DOMAIN t : i < j => t[i].index[2] < t[j].index[2]} :
           form \in Forms}

(* --------------------------- load_model_data --------------------------- *)
None == [none |-> TRUE]

(* load_parquet_with_retry: a file that cannot be read raises *)
Readable(rd, name) == name \in rd

(* the chunk_size each try block of load_model_data passes; 0 is None *)
ChunkSize(name) == IF name = "content_predictions.parquet" THEN 100000 ELSE 0

(* one read attempt of load_parquet_with_retry: pd.read_parquet, or with a *)
(* chunk_size the slices of pq.read_table joined by pd.concat, which       *)
(* raises ValueError when a table of no rows leaves it no chunk            *)
ReadAttempt(fs, rd, name, chunk_size) ==
    IF ~Readable(rd, name) THEN [exc |-> "OSError", table |-> <<>>]
    ELSE IF chunk_size # 0 /\ fs[name] = <<>>
         THEN [exc |-> "ValueError", table |-> <<>>]
    ELSE [exc |-> "", table |-> fs[name]]

(* the try block of a table runs to its end *)
LoadSucceeds(fs, rd, name) == ReadAttempt(fs, rd, name, ChunkSize(name)).exc = ""

(* astype(str) on both id columns, then set_index('user_id') *)
IndexedPredictions(raw) ==
    [i \in DOMAIN raw |->
        [user_id |-> Str(raw[i].user_id),
         movie_id |-> Str(raw[i].movie_id),
         rating |-> raw[i].rating]]

KeyOf(name) ==
    CASE name = "collab_predictions.parquet" -> "collab_predictions_df"
      [] name = "content_predictions.parquet" -> "content_predictions_df"
      [] name = "current_ratings.parquet" -> "current_ratings_df"
      [] name = "movie_genres.parquet" -> "genre_df"
      [] name = "top_100_movies.parquet" -> "top_100_df"

FileOf(key) == CHOOSE name \in FileNames : KeyOf(name) = key

(* genre_df.index.astype(str) *)
IndexedGenres(raw) ==
    [i \in DOMAIN raw |->
        [index |-> Str(raw[i].index), features |-> raw[i].features]]

(* top_100_df['movie_id'].astype(str) *)
StringTop100(raw) == [i \in DOMAIN raw |-> [movie_id |-> Str(raw[i].movie_id)]]

LoadTable(fs, key) ==
    CASE key \in {"collab_predictions_df", "content_predictions_df",
                  "current_ratings_df"} -> IndexedPredictions(fs[FileOf(key)])
      [] key = "genre_df" -> IndexedGenres(fs[FileOf(key)])
      [] key = "top_100_df" -> StringTop100(fs[FileOf(key)])

(* load_model_data without the degraded policy: one failed load raises *)
load_model_data_strict(fs, rd) ==
    IF \E f \in FileNames : ~LoadSucceeds(fs, rd, f) THEN None
    ELSE [key \in {KeyOf(name) : name \in FileNames} |-> LoadTable(fs, key)]

(* the dictionary of the tables whose try block succeeded; raising          *)
(* RuntimeError when it is empty is modelled by the value None              *)
load_model_data(fs, rd) ==
    LET loaded ==
            {KeyOf(name) : name \in {f \in FileNames : LoadSucceeds(fs, rd, f)}}
        model_data == [key \in loaded |-> LoadTable(fs, key)]
    IN  IF loaded = {} THEN None ELSE model_data

(* the calls of load_parquet_with_retry a run of load_model_data makes:     *)
(* each of the five try blocks calls it, whatever the blocks before did     *)
load_model_data_calls ==
    {[file |-> name, caller |-> "load_model_data"] : name \in FileNames}

(* ------------------------- per-source ranking -------------------------- *)
(* Series.nlargest(n, keep): called as nlargest(n, 'rating') on the Series *)
(* that .loc returns for a single row, keep is 'rating' and pandas raises  *)
SeriesNlargest(keep) ==
    IF keep \in {"first", "last", "all"} THEN Raise("TypeError")
    ELSE Raise("ValueError")

(* TopOfTable without the index membership test: .loc raises KeyError *)
TopOfTableUnchecked(key, user_id, model_data, n) ==
    IF key \notin DOMAIN model_data THEN EmptyFrame
    ELSE LET df == model_data[key]
             user_id_str == Str(user_id)
         IN  IF ~InIndex(df, user_id_str) THEN Raise("KeyError")
             ELSE IF LocIsSeries(df, user_id_str) THEN SeriesNlargest("rating")
             ELSE Frame(MovieIds(nlargest(LocRows(df, user_id_str), n, "rating")))

TopOfTable(key, user_id, model_data, n) ==
    IF key \notin DOMAIN model_data THEN EmptyFrame
    ELSE LET df == model_data[key]
             user_id_str == Str(user_id)
         IN  IF ~InIndex(df, user_id_str) THEN EmptyFrame
             ELSE IF LocIsSeries(df, user_id_str) THEN SeriesNlargest("rating")
             ELSE IF LocRows(df, user_id_str) = <<>> THEN EmptyFrame
             ELSE Frame(MovieIds(nlargest(LocRows(df, user_id_str), n, "rating")))

get_user_content_recommendations(user_id, model_data, n) ==
    TopOfTable("content_predictions_df", user_id, model_data, n)

get_user_collab_recommendations(user_id, model_data, n) ==
    TopOfTable("collab_predictions_df", user_id, model_data, n)

get_user_top_rated_movies(user_id, model_data, n) ==
    TopOfTable("current_ratings_df", user_id, model_data, n)

(* ------------------------------ blending ------------------------------- *)
(* the ids of a set in the order groupby / Index.difference sort strings *)
RECURSIVE SortedIds(_)
SortedIds(S) ==
    IF S = {} THEN <<>>
    ELSE LET m == CHOOSE x \in S : \A y \in S : y = x \/ StrLess(x, y)
         IN  <<m>> \o SortedIds(S \ {m})

RECURSIVE SumScore(_)
SumScore(rows) ==
    IF rows = <<>> THEN 0 ELSE Head(rows).score + SumScore(Tail(rows))

(* recs.merge(user_predictions[['movie_id', 'rating']], on='movie_id',     *)
(* how='left') followed by score = rating * weight                          *)
RECURSIVE MergeScore(_, _, _)
MergeScore(ids, predictions, weight) ==
    IF ids = <<>> THEN <<>>
    ELSE LET matches == SelectSeq(predictions,
                                  LAMBDA r : r.movie_id = Head(ids))
         IN  [i \in DOMAIN matches |->
                 [movie_id |-> Head(ids),
                  score |-> matches[i].rating * weight]]
             \o MergeScore(Tail(ids), predictions, weight)

(* the concatenated rows left as they are, one entry per source row *)
UngroupedRows(combined) == combined

(* combined.groupby('movie_id')['score'].sum().reset_index() *)
GroupBySum(combined) ==
    LET keys == SortedIds({combined[i].movie_id : i \in DOMAIN combined})
    IN  [k \in DOMAIN keys |->
            [movie_id |-> keys[k],
             score |-> SumScore(SelectSeq(combined,
                                LAMBDA r : r.movie_id = keys[k]))]]

WeightedSource(recs, key, user_id, model_data, weight) ==
    IF recs.movie_id = <<>> THEN <<>>
    ELSE MergeScore(recs.movie_id,
                    LocRows(model_data[key], Str(user_id)), weight)

get_hybrid_recommendations(user_id, model_data, n, content_weight) ==
    LET content_recs == get_user_content_recommendations(user_id, model_data, n)
        collab_recs == get_user_collab_recommendations(user_id, model_data, n)
    IN  IF content_recs.exc # "" \/ collab_recs.exc # "" THEN EmptyFrame
        ELSE IF IsEmpty(content_recs) /\ IsEmpty(collab_recs) THEN EmptyFrame
        ELSE LET combined_recs ==
                     WeightedSource(content_recs, "content_predictions_df",
                                    user_id, model_data, content_weight)
                     \o WeightedSource(collab_recs, "collab_predictions_df",
                                       user_id, model_data, 2 - content_weight)
             IN  Frame(MovieIds(nlargest(GroupBySum(combined_recs), n, "score")))

(* ------------------------------ cold start ----------------------------- *)
LikedRating == 5

RECURSIVE SumSeq(_)
SumSeq(s) == IF s = <<>> THEN 0 ELSE Head(s) + SumSeq(Tail(s))

Column(X, j) == [i \in DOMAIN X |-> X[i][j]]

(* Ridge(alpha=1.0).fit(X, y) with fit_intercept: X and y are centred on   *)
(* their means and coef solves (Xc'Xc + alpha I) coef = Xc'yc.  m * Xc and *)
(* m * yc are computed here (m rows), so XtY is Xc'yc scaled by m * m.  A   *)
(* zero right-hand side has the one solution coef = 0, the only case the   *)
(* constant label vector produces.                                          *)
RidgeXtY(X, y) ==
    LET m == Len(X)
    IN  [j \in DOMAIN X[1] |->
            SumSeq([i \in DOMAIN X |->
                (m * X[i][j] - SumSeq(Column(X, j))) * (m * y[i] - SumSeq(y))])]

RidgeCoef(X, y) ==
    CASE \A j \in DOMAIN X[1] : RidgeXtY(X, y)[j] = 0 -> [j \in DOMAIN X[1] |-> 0]

(* intercept_ = mean(y) - mean(X) . coef *)
RidgeIntercept(X, y, coef) ==
    (SumSeq(y) - SumSeq([j \in DOMAIN X[1] |-> SumSeq(Column(X, j)) * coef[j]]))
    \div Len(X)

(* model.predict(x) = x . coef_ + intercept_ *)
RidgePredict(coef, intercept, x) ==
    SumSeq([j \in DOMAIN x |-> x[j] * coef[j]]) + intercept

(* the call of load_parquet_with_retry the "load genre data if not already *)
(* loaded" block makes                                                      *)
get_cold_start_recommendations_calls(model_data) ==
    IF "genre_df" \in DOMAIN model_data THEN {}
    ELSE {[file |-> "movie_genres.parquet",
           caller |-> "get_cold_start_recommendations"]}

(* model_data after the "load genre data if not already loaded" block: the *)
(* frame read on demand is stored as read, its index is not converted      *)
ColdStartModelData(model_data, fs, rd) ==
    IF "genre_df" \in DOMAIN model_data THEN model_data
    ELSE IF ~Readable(rd, "movie_genres.parquet") THEN model_data
    ELSE [key \in DOMAIN model_data \cup {"genre_df"} |->
            IF key = "genre_df" THEN fs["movie_genres.parquet"]
            ELSE model_data[key]]

GenreIndex(genre_df) == {genre_df[i].index : i \in DOMAIN genre_df}

(* genre_df.loc[ids].values: the rows of every label, in the order of ids *)
RECURSIVE GenreLoc(_, _)
GenreLoc(genre_df, ids) ==
    IF ids = <<>> THEN <<>>
    ELSE LET rows == SelectSeq(genre_df, LAMBDA r : r.index = Head(ids))
         IN  [i \in DOMAIN rows |-> rows[i].features]
             \o GenreLoc(genre_df, Tail(ids))

(* every label of the index, the liked ones included *)
all_movie_ids(genre_df, valid_movies) == SortedIds(GenreIndex(genre_df))

(* genre_df.index.difference(valid_movies) *)
unseen_movie_ids(genre_df, valid_movies) ==
    SortedIds(GenreIndex(genre_df) \ Range(valid_movies))

get_cold_start_recommendations(movies_list, model_data, n, fs, rd) ==
    LET md == ColdStartModelData(model_data, fs, rd)
    IN  IF "genre_df" \notin DOMAIN md THEN EmptyFrame
        ELSE
        LET genre_df == md["genre_df"]
            movies == [i \in DOMAIN movies_list |-> Str(movies_list[i])]
            valid_movies ==
                SelectSeq(movies, LAMBDA m : m \in GenreIndex(genre_df))
        IN  IF valid_movies = <<>> THEN EmptyFrame
            ELSE
            LET X_train == GenreLoc(genre_df, valid_movies)
                y_train == [i \in DOMAIN valid_movies |-> LikedRating]
                coef == RidgeCoef(X_train, y_train)
                intercept == RidgeIntercept(X_train, y_train, coef)
                unseen == unseen_movie_ids(genre_df, valid_movies)
                X_test == GenreLoc(genre_df, unseen)
                recommendations ==
                    [i \in DOMAIN unseen |->
                        [movie_id |-> unseen[i],
                         rating |-> RidgePredict(coef, intercept, X_test[i])]]
            IN  IF X_test = <<>> \/ Len(X_test) # Len(unseen) THEN EmptyFrame
                ELSE Frame(MovieIds(nlargest(recommendations, n, "rating")))

(* np.random.RandomState(42).permutation(len), positions counted from 1:   *)
(* the order DataFrame.sample(random_state=42) draws the rows in            *)
Permutation42(len) ==
    CASE len = 1 -> <<1>>
      [] len = 2 -> <<2, 1>>
      [] len = 3 -> <<1, 2, 3>>
      [] len = 4 -> <<2, 4, 1, 3>>
      [] len = 5 -> <<2, 5, 3, 1, 4>>
      [] len = 6 -> <<1, 2, 6, 3, 5, 4>>

(* DataFrame.sample(n, replace=True) with the same seed would draw rows    *)
(* independently; here every draw of the seeded generator hits one row     *)
SampleWithReplacement(df, n) ==
    IF n < 0 THEN Raise("ValueError")
    ELSE Frame([i \in 1..n |-> df[Permutation42(Len(df))[1]].movie_id])

(* top_100_df.sample(n, random_state=42): the first n rows of the seeded    *)
(* permutation; a negative n raises ValueError                              *)
Sample(df, n) ==
    IF n < 0 THEN Raise("ValueError")
    ELSE Frame([i \in 1..n |-> df[Permutation42(Len(df))[i]].movie_id])

get_cold_start_movies(model_data, n) ==
    IF "top_100_df" \notin DOMAIN model_data THEN EmptyFrame
    ELSE LET top_100_df == model_data["top_100_df"]
         IN  IF top_100_df = <<>> THEN EmptyFrame
             ELSE LET random_movies == Sample(top_100_df, Min2(n, Len(top_100_df)))
                  IN  IF random_movies.exc # "" THEN EmptyFrame
                      ELSE random_movies

(* ------------------------------ requests ------------------------------- *)
NoRequest == [op |-> "none"]

NoResponse == [kind |-> "none"]

(* no task has been submitted to an executor *)
NoFutures == [content |-> [status |-> "none"], collab |-> [status |-> "none"]]

Weights == -1..3

QueryUsers == {StrId(u) : u \in UserKeys}

(* the user the source files are about and a user they do not hold *)
SourceUsers == {StrId(1), StrId(MaxUser)}

(* ---------------------- ranking of a single table ---------------------- *)
InitRank ==
    \E t \in PredictionFiles :
    \E present \in {PredictionFileNames \ {"content_predictions.parquet"},
                    PredictionFileNames \ {"current_ratings.parquet"}} :
        /\ files = [name \in FileNames |->
                       IF name \in PredictionFileNames THEN t ELSE <<>>]
        /\ readable = present
        /\ cached_model_data = load_model_data(files, readable)
        /\ phase = "serving"
        /\ request = NoRequest
        /\ response = NoResponse
        /\ load_calls = load_model_data_calls
        /\ pc = "idle"
        /\ futures = NoFutures
        /\ attempt = 0
        /\ sleeps = <<>>
        /\ reads = 0
        /\ predictions_dict = <<>>
        /\ earlier = <<>>

(* no call or request is being served *)
Idle == phase = "serving" /\ request = NoRequest

Call(req, res) ==
    /\ request' = req
    /\ response' = res
    /\ UNCHANGED <<files, predictions_dict, earlier, readable, cached_model_data, phase, load_calls,
                   frame_vars>>

CallContent ==
    /\ Idle
    /\ \E u \in QueryUsers, n \in NValues :
           Call([op |-> "content", user_id |-> u, n |-> n],
                get_user_content_recommendations(u, cached_model_data, n))

CallCollab ==
    /\ Idle
    /\ \E u \in QueryUsers, n \in NValues :
           Call([op |-> "collab", user_id |-> u, n |-> n],
                get_user_collab_recommendations(u, cached_model_data, n))

CallTopRated ==
    /\ Idle
    /\ \E u \in QueryUsers, n \in NValues :
           Call([op |-> "top_rated", user_id |-> u, n |-> n],
                get_user_top_rated_movies(u, cached_model_data, n))

(* the caller takes the result; the next call can start *)
Return ==
    /\ request # NoRequest
    /\ request' = NoRequest
    /\ response' = NoResponse
    /\ UNCHANGED <<files, predictions_dict, earlier, readable, cached_model_data, phase, load_calls,
                   frame_vars>>

(* the caller takes the result and keeps it to compare a later call with it *)
ReturnRemembered ==
    /\ request # NoRequest
    /\ pc \in {"idle", "returned"}
    /\ earlier = <<>>
    /\ earlier' = <<[request |-> request, response |-> response]>>
    /\ request' = NoRequest
    /\ response' = NoResponse
    /\ pc' = "idle"
    /\ futures' = NoFutures
    /\ UNCHANGED <<files, predictions_dict, readable, cached_model_data, phase,
                   load_calls, attempt, sleeps, reads>>

NextRank == CallContent \/ CallCollab \/ CallTopRated \/ Return

SpecRank == InitRank /\ [][NextRank]_vars

(* ----------------------- properties of the ranking --------------------- *)
SourceKey(op) ==
    CASE op = "content" -> "content_predictions_df"
      [] op = "collab" -> "collab_predictions_df"
      [] op = "top_rated" -> "current_ratings_df"

(* the rows of the requested user in the table the request reads *)
RequestedRows(key) ==
    IF key \in DOMAIN cached_model_data
    THEN LocRows(cached_model_data[key], request.user_id)
    ELSE <<>>

RatingIn(rows, movie_id) ==
    (CHOOSE r \in Range(rows) : r.movie_id = movie_id).rating

(* ids is a top-n ranking of rows: min(n, count) distinct items of rows,   *)
(* scores non-increasing, nothing left out scores higher than an item kept *)
IsTopN(ids, rows, n) ==
    /\ Len(ids) = Min2(n, Len(rows))
    /\ NoDup(ids)
    /\ Range(ids) \subseteq Range(MovieIds(rows))
    /\ \A i \in 1..(Len(ids) - 1) :
           RatingIn(rows, ids[i]) >= RatingIn(rows, ids[i + 1])
    /\ \A r \in Range(rows) :
           r.movie_id \notin Range(ids)
               => \A i \in DOMAIN ids : RatingIn(rows, ids[i]) >= r.rating

(* C1: for a user with count >= 1 records in a loaded prediction table and *)
(* n >= 1, the content and the collaborative ranking return exactly        *)
(* min(n, count) items of that user, by non-increasing score, and these    *)
(* are the user's highest-scored items.                                     *)
C1_TopNOfUser ==
    (request.op \in {"content", "collab"} /\ request.n >= 1
     /\ Len(RequestedRows(SourceKey(request.op))) >= 1)
        => /\ response.exc = ""
           /\ IsTopN(response.movie_id,
                     RequestedRows(SourceKey(request.op)), request.n)

(* the same statement for users with at least two records; not a claim *)
TopNOfUserWithTwoRows ==
    (request.op \in {"content", "collab"} /\ request.n >= 1
     /\ Len(RequestedRows(SourceKey(request.op))) >= 2)
        => /\ response.exc = ""
           /\ IsTopN(response.movie_id,
                     RequestedRows(SourceKey(request.op)), request.n)

(* C2: a user id absent from a table, or a table absent from model_data,   *)
(* gives an empty result of the three per-table functions, never an        *)
(* exception.                                                               *)
C2_AbsentIsEmpty ==
    (request.op \in {"content", "collab", "top_rated"}
     /\ RequestedRows(SourceKey(request.op)) = <<>>)
        => response = EmptyFrame

C2_Witness ==
    /\ request.op = "top_rated"
    /\ request.n >= 1
    /\ "current_ratings_df" \in DOMAIN cached_model_data
    /\ cached_model_data["current_ratings_df"] # <<>>
    /\ "content_predictions_df" \notin DOMAIN cached_model_data
    /\ RequestedRows("current_ratings_df") = <<>>
    /\ response = EmptyFrame

(* ------------------------ blending of two sources ---------------------- *)
InitHybrid ==
    \E tc \in SourceFiles("int"), tl \in SourceFiles("int") :
        /\ files = [name \in FileNames |->
                       CASE name = "content_predictions.parquet" -> tc
                         [] name = "collab_predictions.parquet" -> tl
                         [] OTHER -> <<>>]
        /\ readable = PredictionFileNames
        /\ cached_model_data = load_model_data(files, readable)
        /\ phase = "serving"
        /\ request = NoRequest
        /\ response = NoResponse
        /\ load_calls = load_model_data_calls
        /\ pc = "idle"
        /\ futures = NoFutures
        /\ attempt = 0
        /\ sleeps = <<>>
        /\ reads = 0
        /\ predictions_dict = <<>>
        /\ earlier = <<>>

CallHybrid ==
    /\ Idle
    /\ \E u \in SourceUsers, n \in NValues, w \in Weights :
           Call([op |-> "hybrid", user_id |-> u, n |-> n, content_weight |-> w],
                get_hybrid_recommendations(u, cached_model_data, n, w))

NextHybrid == CallHybrid \/ Return

SpecHybrid == InitHybrid /\ [][NextHybrid]_vars

(* the top-n ranking of a source for the request *)
RankOf(key) == MovieIds(nlargest(RequestedRows(key), request.n, "rating"))

SourceTerm(key, weight, movie_id) ==
    IF movie_id \in Range(RankOf(key))
    THEN RatingIn(RequestedRows(key), movie_id) * weight
    ELSE 0

(* sum over the sources whose top-n ranking holds the item of              *)
(* raw score * source weight                                               *)
BlendedScore(movie_id) ==
    SourceTerm("content_predictions_df", request.content_weight, movie_id)
    + SourceTerm("collab_predictions_df", 2 - request.content_weight, movie_id)

Candidates ==
    Range(RankOf("content_predictions_df"))
    \cup Range(RankOf("collab_predictions_df"))

IsBlend(ids) ==
    /\ NoDup(ids)
    /\ Range(ids) \subseteq Candidates
    /\ Len(ids) = Min2(request.n, Cardinality(Candidates))
    /\ \A i \in 1..(Len(ids) - 1) :
           BlendedScore(ids[i]) >= BlendedScore(ids[i + 1])
    /\ \A m \in Candidates \ Range(ids) :
           \A i \in DOMAIN ids : BlendedScore(ids[i]) >= BlendedScore(m)

(* C3: the hybrid result lists the items of the two top-n rankings by      *)
(* descending blended score, the blended score of an item being the sum,   *)
(* over the sources whose ranking holds it, of raw score * source weight.  *)
C3_BlendedOrder ==
    (request.op = "hybrid" /\ request.n >= 1)
        => response.exc = "" /\ IsBlend(response.movie_id)

(* the same statement when no source holds exactly one row of the user;    *)
(* not a claim                                                              *)
BlendedOrderWithoutSingleRow ==
    (request.op = "hybrid" /\ request.n >= 1
     /\ Len(RequestedRows("content_predictions_df")) # 1
     /\ Len(RequestedRows("collab_predictions_df")) # 1)
        => response.exc = "" /\ IsBlend(response.movie_id)

(* the rows handed to the blending step, in the order of the two concat    *)
(* calls: the content ranking, then the collaborative ranking              *)
BlendInput == RankOf("content_predictions_df") \o RankOf("collab_predictions_df")

(* the first row of the blending input that holds the movie *)
FirstRow(movie_id) ==
    CHOOSE i \in DOMAIN BlendInput :
        /\ BlendInput[i] = movie_id
        /\ \A j \in 1..(i - 1) : BlendInput[j] # movie_id

(* C23: ranking breaks ties stably: two items of equal blended score are   *)
(* listed by the hybrid result in their relative order in the input of the *)
(* blending step (the per-source rankings, taken in file order).           *)
C23_StableTies ==
    (request.op = "hybrid" /\ request.n >= 1
     /\ Len(RequestedRows("content_predictions_df")) # 1
     /\ Len(RequestedRows("collab_predictions_df")) # 1
     /\ response.exc = "")
        => \A i, j \in DOMAIN response.movie_id :
               (i < j /\ BlendedScore(response.movie_id[i])
                             = BlendedScore(response.movie_id[j]))
                   => FirstRow(response.movie_id[i]) < FirstRow(response.movie_id[j])

(* C4: with content_weight 1.0 the hybrid result is the content ranking    *)
(* alone, with 0.0 the collaborative ranking alone.                        *)
C4_BoundaryWeights ==
    /\ (request.op = "hybrid" /\ request.content_weight = 2)
           => response.movie_id =
                  get_user_content_recommendations(
                      request.user_id, cached_model_data, request.n).movie_id
    /\ (request.op = "hybrid" /\ request.content_weight = 0)
           => response.movie_id =
                  get_user_collab_recommendations(
                      request.user_id, cached_model_data, request.n).movie_id

(* C5: the hybrid result has at most n entries (none when n <= 0) and no   *)
(* item twice; an item of both rankings appears once.                      *)
C5_NoDuplicates ==
    request.op = "hybrid"
        => /\ NoDup(response.movie_id)
           /\ Len(response.movie_id) <= (IF request.n > 0 THEN request.n ELSE 0)

(* an item of both rankings is returned once: the two rankings hold more  *)
(* rows together than the n entries of the result                          *)
C5_Witness ==
    /\ request.op = "hybrid"
    /\ request.content_weight \in 0..2
    /\ \E m \in Range(response.movie_id) :
           /\ m \in Range(RankOf("content_predictions_df"))
           /\ m \in Range(RankOf("collab_predictions_df"))
    /\ Len(response.movie_id) = request.n
    /\ Len(RankOf("content_predictions_df"))
       + Len(RankOf("collab_predictions_df")) > request.n

(* ------------------- the two lookups as parallel tasks ----------------- *)
(* lines 323-362 of get_hybrid_recommendations: the blending of the two    *)
(* results the futures returned                                             *)
BlendRecs(content_recs, collab_recs, user_id, model_data, n, content_weight) ==
    IF IsEmpty(content_recs) /\ IsEmpty(collab_recs) THEN EmptyFrame
    ELSE LET combined_recs ==
                 WeightedSource(content_recs, "content_predictions_df",
                                user_id, model_data, content_weight)
                 \o WeightedSource(collab_recs, "collab_predictions_df",
                                   user_id, model_data, 2 - content_weight)
         IN  Frame(MovieIds(nlargest(GroupBySum(combined_recs), n, "score")))

Tasks == {"content", "collab"}

(* source functions that keep a cursor between calls: once a result has    *)
(* been handed out and kept, the next lookup finds the cursor exhausted    *)
TaskResultOnce(task, user_id, model_data, n) ==
    IF earlier # <<>> THEN EmptyFrame
    ELSE IF task = "content"
    THEN get_user_content_recommendations(user_id, model_data, n)
    ELSE get_user_collab_recommendations(user_id, model_data, n)

(* the function a task was submitted with *)
TaskResult(task, user_id, model_data, n) ==
    IF task = "content"
    THEN get_user_content_recommendations(user_id, model_data, n)
    ELSE get_user_collab_recommendations(user_id, model_data, n)

InitThreads ==
    \E tc \in {sf \in SourceFiles("int") : CatalogueOrder(sf)},
       tl \in {sf \in SourceFiles("int") : CatalogueOrder(sf)} :
        /\ files = [name \in FileNames |->
                       CASE name = "content_predictions.parquet" -> tc
                         [] name = "collab_predictions.parquet" -> tl
                         [] OTHER -> <<>>]
        /\ readable = PredictionFileNames
        /\ cached_model_data = load_model_data(files, readable)
        /\ phase = "serving"
        /\ request = NoRequest
        /\ response = NoResponse
        /\ load_calls = load_model_data_calls
        /\ pc = "idle"
        /\ futures = NoFutures
        /\ attempt = 0
        /\ sleeps = <<>>
        /\ reads = 0
        /\ predictions_dict = <<>>
        /\ earlier = <<>>

(* get_hybrid_recommendations is entered with the cached model data *)
EnterHybrid ==
    /\ Idle
    /\ pc = "idle"
    /\ \E u \in SourceUsers, n \in NValues :
           request' = [op |-> "hybrid", user_id |-> u, n |-> n,
                       content_weight |-> 1]
    /\ pc' = "submit_content"
    /\ UNCHANGED <<files, predictions_dict, earlier, readable, cached_model_data, phase, response,
                   load_calls, futures, attempt, sleeps, reads>>

(* executor.submit: the work item is queued for a worker thread *)
Submit(task, next) ==
    /\ pc = "submit_" \o task
    /\ futures' = [futures EXCEPT ![task] = [status |-> "pending"]]
    /\ pc' = next
    /\ UNCHANGED <<files, predictions_dict, earlier, readable, cached_model_data, phase, request, response,
                   load_calls, attempt, sleeps, reads>>

SubmitContent == Submit("content", "submit_collab")

SubmitCollab == Submit("collab", "result_content")

(* one of the max_workers=2 worker threads takes the work item *)
WorkerStarts ==
    /\ \E task \in Tasks :
           /\ futures[task].status = "pending"
           /\ futures' = [futures EXCEPT ![task] = [status |-> "running"]]
    /\ UNCHANGED <<files, predictions_dict, earlier, readable, cached_model_data, phase, request, response,
                   load_calls, pc, attempt, sleeps, reads>>

(* the lookup returns or raises; the future holds its outcome *)
WorkerFinishes ==
    /\ \E task \in Tasks :
           /\ futures[task].status = "running"
           /\ futures' =
                  [futures EXCEPT ![task] =
                      [status |-> "finished",
                       result |-> TaskResult(task, request.user_id,
                                             cached_model_data, request.n)]]
    /\ UNCHANGED <<files, predictions_dict, earlier, readable, cached_model_data, phase, request, response,
                   load_calls, pc, attempt, sleeps, reads>>

(* future.result(): blocks until the task has finished, then returns its   *)
(* result or re-raises its exception, which leaves the with block          *)
Result(task, next) ==
    /\ pc = "result_" \o task
    /\ futures[task].status = "finished"
    /\ pc' = IF futures[task].result.exc # "" THEN "exit_with_raising" ELSE next
    /\ UNCHANGED <<files, predictions_dict, earlier, readable, cached_model_data, phase, request, response,
                   load_calls, futures, attempt, sleeps, reads>>

ResultContent == Result("content", "result_collab")

ResultCollab == Result("collab", "exit_with")

(* shutdown(wait=False): the with block is left at once *)
ShutdownNoWait == TRUE

(* ThreadPoolExecutor.__exit__ is shutdown(wait=True): it joins the worker *)
(* threads, which run every submitted task to its end                      *)
ShutdownWaits == \A task \in Tasks : futures[task].status \in {"none", "finished"}

ExecutorExit ==
    /\ pc \in {"exit_with", "exit_with_raising"}
    /\ ShutdownWaits
    /\ pc' = IF pc = "exit_with" THEN "blend" ELSE "except"
    /\ UNCHANGED <<files, predictions_dict, earlier, readable, cached_model_data, phase, request, response,
                   load_calls, futures, attempt, sleeps, reads>>

Blend ==
    /\ pc = "blend"
    /\ response' = BlendRecs(futures["content"].result, futures["collab"].result,
                             request.user_id, cached_model_data, request.n,
                             request.content_weight)
    /\ pc' = "returned"
    /\ UNCHANGED <<files, predictions_dict, earlier, readable, cached_model_data, phase, request,
                   load_calls, futures, attempt, sleeps, reads>>

(* except Exception: return pd.DataFrame(columns=['movie_id']) *)
Except ==
    /\ pc = "except"
    /\ response' = EmptyFrame
    /\ pc' = "returned"
    /\ UNCHANGED <<files, predictions_dict, earlier, readable, cached_model_data, phase, request,
                   load_calls, futures, attempt, sleeps, reads>>

ReturnHybrid ==
    /\ pc = "returned"
    /\ request' = NoRequest
    /\ response' = NoResponse
    /\ pc' = "idle"
    /\ futures' = NoFutures
    /\ UNCHANGED <<files, predictions_dict, earlier, readable, cached_model_data, phase, load_calls,
                   attempt, sleeps, reads>>

NextThreads ==
    \/ EnterHybrid
    \/ SubmitContent
    \/ SubmitCollab
    \/ WorkerStarts
    \/ WorkerFinishes
    \/ ResultContent
    \/ ResultCollab
    \/ ExecutorExit
    \/ Blend
    \/ Except
    \/ ReturnHybrid
    \/ ReturnRemembered

SpecThreads == InitThreads /\ [][NextThreads]_vars

(* the step-wise run returns what get_hybrid_recommendations computes;      *)
(* not a claim                                                              *)
ThreadsAgree ==
    pc = "returned"
        => response = get_hybrid_recommendations(
                          request.user_id, cached_model_data, request.n,
                          request.content_weight)

(* the call being served was also made before, with the same arguments *)
SameCallEarlier ==
    /\ request # NoRequest
    /\ earlier # <<>>
    /\ earlier[1].request = request

C16_JoinBeforeBlend ==
    /\ pc \in {"result_content", "result_collab", "exit_with",
               "exit_with_raising", "blend", "except", "returned"}
           => \A task \in Tasks : futures[task].status # "none"
    /\ pc \in {"blend", "except", "returned"}
           => \A task \in Tasks : futures[task].status = "finished"

(* the error path is taken after the other task has finished as well *)
C16_Witness ==
    /\ pc = "except"
    /\ futures["content"].status = "finished"
    /\ futures["content"].result.exc # ""
    /\ futures["collab"].status = "finished"
    /\ futures["collab"].result.movie_id # <<>>

(* both tasks run at the same time; not a claim *)
BothRunning == \A task \in Tasks : futures[task].status = "running"

(* ----------------------- load_parquet_with_retry ----------------------- *)
(* the loop never takes the raise of its last attempt *)
NeverLastAttempt(k, max_retries) == FALSE

(* attempt == max_retries - 1 *)
LastAttempt(k, max_retries) == k = max_retries - 1

(* time.sleep(2 ** attempt) *)
Backoff(k) == 2 ^ k

RetryFiles == {"collab_predictions.parquet", "content_predictions.parquet"}

InitRetry ==
    \E t \in {sf \in SourceFiles("int") : CatalogueOrder(sf)} :
    \E rd \in SUBSET RetryFiles :
        /\ files = [name \in FileNames |->
                       IF name \in RetryFiles THEN t ELSE <<>>]
        /\ readable = rd
        /\ cached_model_data = None
        /\ phase = "starting"
        /\ request = NoRequest
        /\ response = NoResponse
        /\ load_calls = {}
        /\ pc = "idle"
        /\ futures = NoFutures
        /\ attempt = 0
        /\ sleeps = <<>>
        /\ reads = 0
        /\ predictions_dict = <<>>
        /\ earlier = <<>>

(* load_parquet_with_retry(file_path, max_retries, chunk_size) is called;  *)
(* the for loop starts with attempt = 0                                     *)
CallLoad ==
    /\ pc = "idle"
    /\ request = NoRequest
    /\ \E name \in RetryFiles, max_retries \in 0..MaxRetries :
           /\ request' = [op |-> "load_parquet_with_retry", file_path |-> name,
                          max_retries |-> max_retries,
                          chunk_size |-> ChunkSize(name)]
           /\ load_calls' =
                  load_calls \cup {[file |-> name, caller |-> "load_model_data"]}
    /\ pc' = "for"
    /\ attempt' = 0
    /\ sleeps' = <<>>
    /\ reads' = 0
    /\ UNCHANGED <<files, predictions_dict, earlier, readable, cached_model_data, phase, response, futures>>

(* the body of the loop for one value of attempt: the read returns the     *)
(* table, or raises and the handler re-raises or goes on to sleep          *)
Try ==
    /\ pc = "for"
    /\ attempt < request.max_retries
    /\ reads' = reads + 1
    /\ LET r == ReadAttempt(files, readable, request.file_path,
                            request.chunk_size)
       IN  IF r.exc = "" \/ LastAttempt(attempt, request.max_retries)
           THEN response' = r /\ pc' = "returned"
           ELSE response' = response /\ pc' = "sleep"
    /\ UNCHANGED <<files, predictions_dict, earlier, readable, cached_model_data, phase, request,
                   load_calls, futures, attempt, sleeps>>

Sleep ==
    /\ pc = "sleep"
    /\ sleeps' = Append(sleeps, Backoff(attempt))
    /\ attempt' = attempt + 1
    /\ pc' = "for"
    /\ UNCHANGED <<files, predictions_dict, earlier, readable, cached_model_data, phase, request, response,
                   load_calls, futures, reads>>

(* range(max_retries) is exhausted: the function falls off its end and     *)
(* returns None                                                             *)
LoopEnds ==
    /\ pc = "for"
    /\ attempt >= request.max_retries
    /\ response' = [exc |-> "", table |-> None]
    /\ pc' = "returned"
    /\ UNCHANGED <<files, predictions_dict, earlier, readable, cached_model_data, phase, request,
                   load_calls, futures, attempt, sleeps, reads>>

(* the storage backend is flaky: between two attempts the file becomes     *)
(* readable or unreadable                                                   *)
StorageFlips ==
    /\ pc \in {"for", "sleep"}
    /\ readable' = IF request.file_path \in readable
                   THEN readable \ {request.file_path}
                   ELSE readable \cup {request.file_path}
    /\ UNCHANGED <<files, predictions_dict, earlier, cached_model_data, phase, request, response,
                   load_calls, frame_vars>>

ReturnLoad ==
    /\ pc = "returned"
    /\ request.op = "load_parquet_with_retry"
    /\ request' = NoRequest
    /\ response' = NoResponse
    /\ pc' = "idle"
    /\ attempt' = 0
    /\ sleeps' = <<>>
    /\ reads' = 0
    /\ UNCHANGED <<files, predictions_dict, earlier, readable, cached_model_data, phase, load_calls,
                   futures>>

NextRetry == CallLoad \/ Try \/ Sleep \/ LoopEnds \/ StorageFlips \/ ReturnLoad

SpecRetry == InitRetry /\ [][NextRetry]_vars

(* the thread that runs the loop is scheduled: it is the only thread of    *)
(* the startup phase, and time.sleep returns                                *)
SpecRetryLive == SpecRetry /\ WF_vars(Try \/ Sleep \/ LoopEnds)

RetryPositions ==
    /\ reads <= request.max_retries
    /\ Len(sleeps) <= request.max_retries - 1
    /\ \A k \in DOMAIN sleeps : sleeps[k] = 2 ^ (k - 1)
    /\ pc = "for" => reads = Len(sleeps)
    /\ pc = "sleep" => reads = Len(sleeps) + 1
    /\ pc = "returned"
           => /\ reads = Len(sleeps) + 1
              /\ response.exc = "" => response.table = files[request.file_path]
              /\ response.exc # ""
                     => /\ reads = request.max_retries
                        /\ response.exc =
                               ReadAttempt(files, readable, request.file_path,
                                           request.chunk_size).exc

(* C19: with max_retries >= 1, load_parquet_with_retry makes at most       *)
(* max_retries read attempts, returns the table of the first attempt that  *)
(* succeeds without reading again, sleeps 2^k seconds after failed attempt *)
(* k < max_retries - 1, re-raises the exception of attempt max_retries - 1 *)
(* without sleeping, and always terminates.                                *)
C19_BoundedRetry ==
    /\ []((request.op = "load_parquet_with_retry" /\ request.max_retries >= 1)
              => RetryPositions)
    /\ (pc = "for" /\ request.max_retries >= 1) ~> (pc = "returned")

(* the last attempt fails after max_retries - 1 sleeps *)
C19_Witness ==
    /\ request.op = "load_parquet_with_retry"
    /\ request.max_retries = MaxRetries
    /\ pc = "returned"
    /\ response.exc # ""
    /\ reads = MaxRetries
    /\ Len(sleeps) = MaxRetries - 1

(* what the lookup of a source returns, or raises, for the request *)
SourceOutcome(key) ==
    TopOfTable(key, request.user_id, cached_model_data, request.n)

OtherSource(key) ==
    IF key = "content_predictions_df" THEN "collab_predictions_df"
    ELSE "content_predictions_df"

(* C17: when one source lookup raises and the other returns a non-empty    *)
(* ranking, the hybrid result holds the items of the source that           *)
(* succeeded; the result is empty only when every source failed or was     *)
(* empty.                                                                   *)
C17_PartialResult ==
    (request.op = "hybrid" /\ request.n >= 1 /\ request.content_weight \in 0..2)
        => /\ \A key \in {"content_predictions_df", "collab_predictions_df"} :
                  (/\ SourceOutcome(key).exc # ""
                   /\ SourceOutcome(OtherSource(key)).exc = ""
                   /\ SourceOutcome(OtherSource(key)).movie_id # <<>>)
                      => Range(response.movie_id) =
                             Range(SourceOutcome(OtherSource(key)).movie_id)
           /\ response.movie_id = <<>>
                  => \A key \in {"content_predictions_df",
                                 "collab_predictions_df"} :
                         SourceOutcome(key).movie_id = <<>>

(* C18: two empty rankings give an empty result that is no error, and a    *)
(* run in which a source lookup raised does not end in that same outcome.  *)
C18_NoSignalDistinct ==
    (request.op = "hybrid" /\ request.n >= 1 /\ request.content_weight \in 0..2)
        => /\ (IsEmpty(SourceOutcome("content_predictions_df"))
               /\ IsEmpty(SourceOutcome("collab_predictions_df")))
                  => response = EmptyFrame
           /\ (\/ SourceOutcome("content_predictions_df").exc # ""
               \/ SourceOutcome("collab_predictions_df").exc # "")
                  => response # EmptyFrame

(* ------------------------ cold start of a new user --------------------- *)
(* liked ids a caller can send: the catalogue and one id outside of it *)
LikedLists ==
    UNION {BoundedSeq({<<form, m>> : m \in 1..(MaxCatalogue + 1)}, MaxLiked) :
           form \in Forms}

InitCold ==
    \E g \in GenreFiles :
    \E atStartup \in SUBSET {"movie_genres.parquet"} :
    \E now \in {rd \in SUBSET {"movie_genres.parquet"} : atStartup \subseteq rd} :
        /\ files = [name \in FileNames |->
                       IF name = "movie_genres.parquet" THEN g ELSE <<>>]
        /\ readable = now \cup {"top_100_movies.parquet"}
        /\ cached_model_data =
               load_model_data(files, atStartup \cup {"top_100_movies.parquet"})
        /\ phase = "serving"
        /\ request = NoRequest
        /\ response = NoResponse
        /\ load_calls = load_model_data_calls
        /\ pc = "idle"
        /\ futures = NoFutures
        /\ attempt = 0
        /\ sleeps = <<>>
        /\ reads = 0
        /\ predictions_dict = <<>>
        /\ earlier = <<>>

CallColdStart ==
    /\ Idle
    /\ \E movies \in LikedLists, n \in NValues :
           /\ request' = [op |-> "cold_start", movies |-> movies, n |-> n]
           /\ response' = get_cold_start_recommendations(
                              movies, cached_model_data, n, files, readable)
    /\ cached_model_data' =
           ColdStartModelData(cached_model_data, files, readable)
    /\ load_calls' =
           load_calls \cup get_cold_start_recommendations_calls(cached_model_data)
    /\ UNCHANGED <<files, predictions_dict, earlier, readable, phase, frame_vars>>

NextCold == CallColdStart \/ Return

SpecCold == InitCold /\ [][NextCold]_vars

(* the feature table the request was answered from *)
FeatureIndex ==
    IF "genre_df" \in DOMAIN cached_model_data
    THEN GenreIndex(cached_model_data["genre_df"])
    ELSE {}

LikedStrings == {Str(request.movies[i]) : i \in DOMAIN request.movies}

ValidLiked == LikedStrings \cap FeatureIndex

(* C10: the cold-start result holds no liked item, only items of the       *)
(* feature table, no item twice, and, when at least one liked item is      *)
(* valid, min(n, number of feature-table items outside the valid liked     *)
(* set) items (none when n <= 0).                                          *)
C10_ColdStartResult ==
    request.op = "cold_start"
        => /\ response.exc = ""
           /\ Range(response.movie_id) \cap LikedStrings = {}
           /\ Range(response.movie_id) \cap Range(request.movies) = {}
           /\ Range(response.movie_id) \subseteq FeatureIndex
           /\ NoDup(response.movie_id)
           /\ ValidLiked # {}
                  => Len(response.movie_id) =
                         Min2(IF request.n > 0 THEN request.n ELSE 0,
                              Cardinality(FeatureIndex \ ValidLiked))

C10_Witness ==
    /\ request.op = "cold_start"
    /\ request.n >= 1
    /\ ValidLiked # {}
    /\ LikedStrings \ FeatureIndex # {}
    /\ Len(response.movie_id) = request.n
    /\ Cardinality(FeatureIndex \ ValidLiked) > request.n

(* the valid liked items of the request, in the order they were sent *)
ValidLikedSeq ==
    SelectSeq([i \in DOMAIN request.movies |-> Str(request.movies[i])],
              LAMBDA m : m \in FeatureIndex)

(* new_user_model.predict on one feature vector, new_user_model being the   *)
(* Ridge model the request fitted on its valid liked items                  *)
PredictedRating(features) ==
    LET X_train == GenreLoc(cached_model_data["genre_df"], ValidLikedSeq)
        y_train == [i \in DOMAIN ValidLikedSeq |-> LikedRating]
        coef == RidgeCoef(X_train, y_train)
    IN  RidgePredict(coef, RidgeIntercept(X_train, y_train, coef), features)

(* the liked items of the request all carry the feature vector v *)
LikedShare(v) ==
    /\ ValidLiked # {}
    /\ \A r \in Range(cached_model_data["genre_df"]) :
           r.index \in ValidLiked => r.features = v

(* C11: when the liked items all carry one feature vector, the model fitted *)
(* on them with the constant label 5.0 predicts an item with a different    *)
(* feature vector strictly lower than an item with the liked items' vector. *)
C11_DissimilarScoresLower ==
    request.op = "cold_start"
        => \A v \in FeatureVectors :
               LikedShare(v)
                   => \A r \in Range(cached_model_data["genre_df"]) :
                          r.features # v
                              => PredictedRating(r.features) < PredictedRating(v)

(* ------------------------------ HTTP layer ----------------------------- *)
(* outcome of the body of a handler's try block: a returned payload        *)
(* (exc = "") or a raised exception; HTTPException carries its status      *)
Returned(recommendations, top_rated) ==
    [exc |-> "", status |-> 200,
     recommendations |-> recommendations, top_rated |-> top_rated]

RaiseHTTP(status) ==
    [exc |-> "HTTPException", status |-> status,
     recommendations |-> <<>>, top_rated |-> <<>>]

RaiseOther(exc) ==
    [exc |-> exc, status |-> 0, recommendations |-> <<>>, top_rated |-> <<>>]

(* the response FastAPI sends for an outcome that leaves the handler *)
HttpResponse(outcome) ==
    [kind |-> "http",
     status |-> IF outcome.exc = "" THEN 200
                ELSE IF outcome.exc = "HTTPException" THEN outcome.status
                ELSE 500,
     recommendations |-> outcome.recommendations,
     top_rated |-> outcome.top_rated]

(* except Exception as e: raise HTTPException(status_code=500, ...)        *)
(* HTTPException is itself an Exception, so the handler's own 4xx / 503    *)
(* raises are caught here as well                                          *)
ExceptException(outcome) ==
    IF outcome.exc # "" THEN RaiseHTTP(500) ELSE outcome

get_recommendations(model_data, user_id, n, content_weight) ==
    LET recommendations ==
            get_hybrid_recommendations(user_id, model_data, n, content_weight)
        top_rated == get_user_top_rated_movies(user_id, model_data, n)
        try ==
            IF model_data = None THEN RaiseHTTP(503)
            ELSE IF top_rated.exc # "" THEN RaiseOther(top_rated.exc)
            ELSE IF IsEmpty(recommendations) /\ IsEmpty(top_rated)
                 THEN RaiseHTTP(404)
            ELSE Returned(recommendations.movie_id, top_rated.movie_id)
    IN  HttpResponse(ExceptException(try))

get_cold_start_recommendations_endpoint(model_data, movies, n, fs, rd) ==
    LET recommendations ==
            get_cold_start_recommendations(movies, model_data, n, fs, rd)
        try ==
            IF model_data = None THEN RaiseHTTP(503)
            ELSE IF movies = <<>> THEN RaiseHTTP(400)
            ELSE IF IsEmpty(recommendations) THEN RaiseHTTP(404)
            ELSE Returned(recommendations.movie_id, <<>>)
    IN  HttpResponse(ExceptException(try))

get_cold_start_movies_endpoint(model_data, n) ==
    LET random_movies == get_cold_start_movies(model_data, n)
        try ==
            IF model_data = None THEN RaiseHTTP(503)
            ELSE IF IsEmpty(random_movies) THEN RaiseHTTP(404)
            ELSE Returned(random_movies.movie_id, <<>>)
    IN  HttpResponse(ExceptException(try))

(* health_check that never looks at the cache *)
health_check_always_healthy(model_data) ==
    [kind |-> "http", status |-> 200, health |-> "healthy"]

health_check(model_data) ==
    [kind |-> "http", status |-> 200,
     health |-> IF model_data = None THEN "initializing" ELSE "healthy"]

(* ------------------------------ the service ---------------------------- *)
(* the full catalogue with its genre vectors, ids of dtype form *)
CatalogueGenres(form) ==
    [m \in CatalogueKeys |->
        [index |-> <<form, m>>,
         features |-> IF m % 2 = 1 THEN <<1, 0>> ELSE <<0, 1>>]]

(* the popularity table lists the catalogue *)
Top100File == [m \in CatalogueKeys |-> [movie_id |-> <<"int", m>>]]

(* request bodies are list[str] *)
PostedLists == BoundedSeq({StrId(m) : m \in 1..(MaxCatalogue + 1)}, MaxPosted)

InitApi ==
    \E form \in Forms :
    \E t \in {sf \in SourceFiles("int") : CatalogueOrder(sf)} :
    \E rd \in SUBSET FileNames :
        /\ files = [name \in FileNames |->
                       CASE name \in PredictionFileNames -> t
                         [] name = "movie_genres.parquet" -> CatalogueGenres(form)
                         [] OTHER -> Top100File]
        /\ readable = rd
        /\ cached_model_data = None
        /\ phase = "starting"
        /\ request = NoRequest
        /\ response = NoResponse
        /\ load_calls = {}
        /\ pc = "idle"
        /\ futures = NoFutures
        /\ attempt = 0
        /\ sleeps = <<>>
        /\ reads = 0
        /\ predictions_dict = <<>>
        /\ earlier = <<>>

(* lifespan, before the yield *)
Startup ==
    /\ phase = "starting"
    /\ request = NoRequest
    /\ cached_model_data' = load_model_data(files, readable)
    /\ phase' = IF load_model_data(files, readable) = None
                THEN "failed" ELSE "serving"
    /\ load_calls' = load_calls \cup load_model_data_calls
    /\ UNCHANGED <<files, predictions_dict, earlier, readable, request, response, frame_vars>>

(* lifespan, after the yield *)
Shutdown ==
    /\ Idle
    /\ cached_model_data' = None
    /\ phase' = "stopped"
    /\ UNCHANGED <<files, predictions_dict, earlier, readable, request, response, load_calls, frame_vars>>

(* the storage backend is flaky: the genre file, the only file read after  *)
(* startup, becomes readable after its startup load failed                  *)
StorageRecovers ==
    /\ Idle
    /\ "movie_genres.parquet" \notin readable
    /\ readable' = readable \cup {"movie_genres.parquet"}
    /\ UNCHANGED <<files, predictions_dict, earlier, cached_model_data, phase, request, response,
                   load_calls, frame_vars>>

GetRecommendations ==
    /\ Idle
    /\ \E u \in SourceUsers, n \in NValues, w \in Weights :
           /\ request' = [op |-> "GET /recommendations", user_id |-> u,
                          n |-> n, content_weight |-> w]
           /\ response' = get_recommendations(cached_model_data, u, n, w)
    /\ UNCHANGED <<files, predictions_dict, earlier, readable, cached_model_data, phase, load_calls,
                   frame_vars>>

PostColdStartRecommendations ==
    /\ Idle
    /\ \E movies \in PostedLists, n \in NValues :
           /\ request' = [op |-> "POST /cold-start/recommendations",
                          movies |-> movies, n |-> n]
           /\ response' = get_cold_start_recommendations_endpoint(
                              cached_model_data, movies, n, files, readable)
           /\ cached_model_data' =
                  IF movies = <<>> THEN cached_model_data
                  ELSE ColdStartModelData(cached_model_data, files, readable)
           /\ load_calls' =
                  IF movies = <<>> THEN load_calls
                  ELSE load_calls \cup
                       get_cold_start_recommendations_calls(cached_model_data)
    /\ UNCHANGED <<files, predictions_dict, earlier, readable, phase, frame_vars>>

GetColdStartMovies ==
    /\ Idle
    /\ \E n \in NValues :
           /\ request' = [op |-> "GET /cold-start/movies", n |-> n]
           /\ response' = get_cold_start_movies_endpoint(cached_model_data, n)
    /\ UNCHANGED <<files, predictions_dict, earlier, readable, cached_model_data, phase, load_calls,
                   frame_vars>>

(* the process exists but lifespan has not loaded the data yet, or has     *)
(* cleared it again                                                         *)
NotReady == phase \in {"starting", "stopped"} /\ request = NoRequest

HealthCheck ==
    /\ Idle \/ NotReady
    /\ request' = [op |-> "GET /health"]
    /\ response' = health_check(cached_model_data)
    /\ UNCHANGED <<files, predictions_dict, earlier, readable, cached_model_data, phase, load_calls,
                   frame_vars>>

(* a data request that reaches its handler while the cache is None: the    *)
(* handlers leave through their first test                                  *)
RequestWhileNotReady ==
    /\ NotReady
    /\ \/ /\ request' = [op |-> "GET /recommendations", user_id |-> StrId(1),
                          n |-> 1, content_weight |-> 1]
          /\ response' = get_recommendations(cached_model_data, StrId(1), 1, 1)
       \/ /\ request' = [op |-> "GET /cold-start/movies", n |-> 1]
          /\ response' = get_cold_start_movies_endpoint(cached_model_data, 1)
       \/ /\ request' = [op |-> "POST /cold-start/recommendations",
                          movies |-> <<StrId(1)>>, n |-> 1]
          /\ response' = get_cold_start_recommendations_endpoint(
                             cached_model_data, <<StrId(1)>>, 1, files, readable)
    /\ UNCHANGED <<files, predictions_dict, earlier, readable, cached_model_data, phase, load_calls,
                   frame_vars>>

NextApi ==
    \/ Startup
    \/ HealthCheck
    \/ RequestWhileNotReady
    \/ GetRecommendations
    \/ GetColdStartMovies
    \/ PostColdStartRecommendations
    \/ Return
    \/ StorageRecovers
    \/ Shutdown

SpecApi == InitApi /\ [][NextApi]_vars

(* -------------------- properties of the HTTP endpoints ----------------- *)
ClientError == 400..499

(* C6: a content_weight outside [0, 1] is rejected with a validation       *)
(* error; no recommendation list is computed from it.  Stated for the      *)
(* requests that have something to compute: n >= 1 and a user with at      *)
(* least two content predictions.                                          *)
C6_WeightRejected ==
    (request.op = "GET /recommendations"
     /\ request.content_weight \notin 0..2
     /\ request.n >= 1
     /\ Len(RequestedRows("content_predictions_df")) >= 2)
        => /\ response.status \in ClientError
           /\ response.recommendations = <<>>

(* C7: POST /cold-start/recommendations with an empty list of liked items  *)
(* answers 400 whenever the model data is loaded.                          *)
C7_EmptyListIs400 ==
    (request.op = "POST /cold-start/recommendations"
     /\ request.movies = <<>>
     /\ cached_model_data # None)
        => response.status = 400

(* C8: GET /recommendations/{user_id} for a user with no row in any        *)
(* prediction table and none in the rating table answers 404 (the model    *)
(* data being loaded).                                                      *)
C8_UnknownUserIs404 ==
    (request.op = "GET /recommendations"
     /\ cached_model_data # None
     /\ RequestedRows("content_predictions_df") = <<>>
     /\ RequestedRows("collab_predictions_df") = <<>>
     /\ RequestedRows("current_ratings_df") = <<>>)
        => response.status = 404

(* C9: a cold-start request whose liked items are all unknown to the item  *)
(* feature table fails with a client-input (4xx) error, never with a       *)
(* success response and never with a 5xx response.                         *)
C9_NoValidLikedIs4xx ==
    (request.op = "POST /cold-start/recommendations"
     /\ request.movies # <<>>
     /\ "genre_df" \in DOMAIN cached_model_data
     /\ ValidLiked = {})
        => response.status \in ClientError

(* ------------------------- properties of startup ----------------------- *)
(* the files whose load succeeds: the file can be read and, for the        *)
(* chunked read of the content predictions, holds a row                    *)
StartupSucceeded ==
    {f \in FileNames :
        f \in readable /\ (f = "content_predictions.parquet" => files[f] # <<>>)}

(* C12: load_model_data raises (startup fails) exactly when all five loads *)
(* failed; otherwise model_data holds exactly the tables whose load        *)
(* succeeded, and all five loads are attempted whatever failed before.     *)
C12_DegradedLoad ==
    [][(phase = "starting" /\ phase' # "starting")
          => /\ (phase' = "failed") <=> (StartupSucceeded = {})
             /\ phase' = "failed" => cached_model_data' = None
             /\ phase' # "failed"
                    => /\ phase' = "serving"
                       /\ DOMAIN cached_model_data' =
                              {KeyOf(f) : f \in StartupSucceeded}
             /\ load_model_data_calls \subseteq load_calls']_vars

(* a table loaded after the load of an earlier table failed *)
C12_Witness ==
    /\ phase = "serving"
    /\ request = NoRequest
    /\ "collab_predictions.parquet" \notin readable
    /\ "collab_predictions_df" \notin DOMAIN cached_model_data
    /\ "top_100_df" \in DOMAIN cached_model_data
    /\ Cardinality(DOMAIN cached_model_data) < 5

(* ------------------------- properties of readiness --------------------- *)
DataEndpoints ==
    {"GET /recommendations", "GET /cold-start/movies",
     "POST /cold-start/recommendations"}

(* C13: before the load has completed and after shutdown cleared the cache *)
(* GET /health reports "initializing" and no data endpoint answers with    *)
(* success; "healthy" is reported only while the cache holds the result of *)
(* a completed load; a startup whose load raised serves no request.        *)
C13_ReadinessGate ==
    /\ phase \in {"starting", "stopped", "failed"} <=> cached_model_data = None
    /\ request.op = "GET /health"
           => response.health =
                  (IF phase = "serving" THEN "healthy" ELSE "initializing")
    /\ (request.op \in DataEndpoints /\ phase # "serving")
           => response.status # 200
    /\ phase = "failed" => request = NoRequest

(* /health asked after a completed load was cleared by shutdown *)
C13_Witness ==
    /\ phase = "stopped"
    /\ load_calls # {}
    /\ request.op = "GET /health"
    /\ response.health = "initializing"

AllTables == {KeyOf(name) : name \in FileNames}

(* C14: GET /health reports "initializing" while the load is not complete, *)
(* "healthy" when all five tables are loaded and "degraded" when the load  *)
(* completed with a table missing from model_data.                         *)
C14_DegradedReported ==
    request.op = "GET /health"
        => response.health =
               (IF cached_model_data = None THEN "initializing"
                ELSE IF DOMAIN cached_model_data = AllTables THEN "healthy"
                ELSE "degraded")

(* --------------------- properties of the shared tables ----------------- *)
(* C15: after the startup load no request changes model_data: while the    *)
(* service is serving, every step leaves the set of tables and their       *)
(* contents as they are, also when the genre table was missing at startup. *)
C15_ReadOnlyAfterLoad ==
    [][(phase = "serving" /\ phase' = "serving")
          => cached_model_data' = cached_model_data]_vars

(* C20: no user-facing request loads a table: load_parquet_with_retry is   *)
(* called by the startup load only.                                        *)
C20_LoadsOnlyAtStartup ==
    \A call \in load_calls : call.caller = "load_model_data"

(* ---------------- the popular movies shown to a new user --------------- *)
(* top_100_movies.parquet: one row per popular movie, no movie twice       *)
Top100Files ==
    {[i \in DOMAIN s |-> [movie_id |-> <<form, s[i]>>]] :
        s \in {q \in BoundedSeq(CatalogueKeys, MaxCatalogue) : NoDup(q)},
        form \in Forms}

InitMovies ==
    \E t \in Top100Files :
    \E rd \in {FileNames, FileNames \ {"top_100_movies.parquet"}} :
        /\ files = [name \in FileNames |->
                       IF name = "top_100_movies.parquet" THEN t ELSE <<>>]
        /\ readable = rd
        /\ cached_model_data = load_model_data(files, readable)
        /\ phase = "serving"
        /\ request = NoRequest
        /\ response = NoResponse
        /\ load_calls = load_model_data_calls
        /\ pc = "idle"
        /\ futures = NoFutures
        /\ attempt = 0
        /\ sleeps = <<>>
        /\ reads = 0
        /\ predictions_dict = <<>>
        /\ earlier = <<>>

CallColdStartMovies ==
    /\ Idle
    /\ \E n \in NValues :
           Call([op |-> "cold_start_movies", n |-> n],
                get_cold_start_movies(cached_model_data, n))

NextMovies == CallColdStartMovies \/ Return \/ ReturnRemembered

SpecMovies == InitMovies /\ [][NextMovies]_vars

(* the movie ids of top_100_df in model_data *)
PopularIds ==
    IF "top_100_df" \in DOMAIN cached_model_data
    THEN {cached_model_data["top_100_df"][i].movie_id :
              i \in DOMAIN cached_model_data["top_100_df"]}
    ELSE {}

(* C21: with n >= 1 and a non-empty popularity table get_cold_start_movies *)
(* returns min(n, size of the table) pairwise distinct movies, all of the  *)
(* table, and a second call with the same n returns the same movies in the *)
(* same order.                                                             *)
C21_SeededSample ==
    (request.op = "cold_start_movies" /\ request.n >= 1 /\ PopularIds # {})
        => /\ response.exc = ""
           /\ Len(response.movie_id) = Min2(request.n, Cardinality(PopularIds))
           /\ NoDup(response.movie_id)
           /\ Range(response.movie_id) \subseteq PopularIds
           /\ SameCallEarlier => response = earlier[1].response

(* a second call that returns part of a table of three movies *)
C21_Witness ==
    /\ request.op = "cold_start_movies"
    /\ SameCallEarlier
    /\ request.n = 2
    /\ Cardinality(PopularIds) = 3
    /\ Len(response.movie_id) = 2

(* ----------------- src/app.py: top n of a pickled dictionary ----------- *)
(* list.sort(key=lambda x: x[1]) followed by list.reverse(): descending,   *)
(* but equal ratings end in the reverse of the order they had              *)
SortThenReverse(l) ==
    LET Position(i) ==
            1 + Cardinality({j \in DOMAIN l : l[j][2] > l[i][2]})
              + Cardinality({j \in DOMAIN l : j > i /\ l[j][2] = l[i][2]})
    IN  [k \in DOMAIN l |-> l[CHOOSE i \in DOMAIN l : Position(i) = k]]

(* list.sort(key=lambda x: x[1], reverse=True) on a list of                *)
(* <<movie_id, rating>>: descending rating, equal ratings in the order     *)
(* they had (the sort is stable, also with reverse=True)                   *)
SortReverse(l) ==
    LET Position(i) ==
            1 + Cardinality({j \in DOMAIN l : l[j][2] > l[i][2]})
              + Cardinality({j \in DOMAIN l : j < i /\ l[j][2] = l[i][2]})
    IN  [k \in DOMAIN l |-> l[CHOOSE i \in DOMAIN l : Position(i) = k]]

(* the slice l[:n] of a Python list: a negative n counts from the end *)
SliceTo(l, n) ==
    IF n >= 0 THEN SubSeq(l, 1, Min2(n, Len(l)))
    ELSE SubSeq(l, 1, IF Len(l) + n > 0 THEN Len(l) + n ELSE 0)

(* get_top_n_for_user(predictions_dict, user_id, n): the value returned,   *)
(* a list or the message for an unknown user, and the dictionary as the    *)
(* in-place sort leaves it                                                 *)
get_top_n_for_user(dict, user_id, n) ==
    LET user_id_str == Str(user_id)
    IN  IF user_id_str \notin DOMAIN dict
        THEN [returned |-> [kind |-> "str", items |-> <<>>],
              predictions_dict |-> dict]
        ELSE LET user_predictions == SortReverse(dict[user_id_str])
             IN  [returned |-> [kind |-> "list",
                                items |-> SliceTo(user_predictions, n)],
                  predictions_dict |->
                      [dict EXCEPT ![user_id_str] = user_predictions]]

(* the lists of <<movie_id, rating>> a dictionary holds for a user *)
PredictionLists ==
    BoundedSeq({<<<<"int", m>>, r>> : m \in ItemKeys, r \in Ratings}, MaxRows)

(* predictions_dict.pkl: keys as the pickling job wrote them *)
InitApp ==
    \E keys \in {{<<"str", 1>>}, {<<"int", 1>>}, {<<"str", 1>>, <<"str", 2>>}} :
    \E l \in PredictionLists :
        /\ predictions_dict = [u \in keys |-> l]
        /\ files = [name \in FileNames |-> <<>>]
        /\ readable = {}
        /\ cached_model_data = None
        /\ phase = "serving"
        /\ request = NoRequest
        /\ response = NoResponse
        /\ load_calls = {}
        /\ pc = "idle"
        /\ futures = NoFutures
        /\ attempt = 0
        /\ sleeps = <<>>
        /\ reads = 0
        /\ earlier = <<>>

CallTopN ==
    /\ Idle
    /\ \E u \in {<<"str", 1>>, <<"int", 1>>, <<"str", 2>>}, n \in NValues :
           /\ request' = [op |-> "top_n", user_id |-> u, n |-> n]
           /\ response' = get_top_n_for_user(predictions_dict, u, n).returned
           /\ predictions_dict' =
                  get_top_n_for_user(predictions_dict, u, n).predictions_dict
    /\ UNCHANGED <<files, earlier, readable, cached_model_data, phase,
                   load_calls, frame_vars>>

NextApp == CallTopN \/ Return \/ ReturnRemembered

SpecApp == InitApp /\ [][NextApp]_vars

(* a repeated call of get_top_n_for_user returns what the earlier call     *)
(* returned, although the earlier call sorted the list in place; not a     *)
(* claim                                                                   *)
TopNAgain ==
    (request.op = "top_n" /\ SameCallEarlier) => response = earlier[1].response

(* the records the dictionary holds for the user of the request *)
RecordsOfUser ==
    IF Str(request.user_id) \in DOMAIN predictions_dict
    THEN predictions_dict[Str(request.user_id)]
    ELSE <<>>

(* C24: a top-N ranking function returns an empty sequence when n <= 0,    *)
(* for n = 0 and for n < 0, for a user that has records: here              *)
(* get_top_n_for_user.                                                     *)
C24_NonPositiveNIsEmpty ==
    (request.op = "top_n" /\ request.n <= 0 /\ RecordsOfUser # <<>>)
        => response.kind = "list" /\ response.items = <<>>

(* C25: a request with n <= 0 to GET /recommendations/{user_id},           *)
(* GET /cold-start/movies or POST /cold-start/recommendations is rejected  *)
(* as invalid caller input with a 4xx status, never with a 5xx status and  *)
(* never with a success response (the model data being loaded).            *)
C25_NonPositiveNRejected ==
    (request.op \in {"GET /recommendations", "GET /cold-start/movies",
                     "POST /cold-start/recommendations"}
     /\ cached_model_data # None
     /\ request.n <= 0)
        => response.status \in ClientError

(* every id of a table of model_data is a string *)
CanonicalIds(key, df) ==
    \A i \in DOMAIN df :
        CASE key = "genre_df" -> df[i].index[1] = "str"
          [] key = "top_100_df" -> df[i].movie_id[1] = "str"
          [] OTHER -> df[i].user_id[1] = "str" /\ df[i].movie_id[1] = "str"

(* C26: in every reachable state every table held in model_data has its    *)
(* user ids and item ids in the canonical string form, whichever code path *)
(* stored the table: the startup load or the on-demand load of the genre   *)
(* table.                                                                  *)
C26_CanonicalIds ==
    cached_model_data # None
        => \A key \in DOMAIN cached_model_data :
               CanonicalIds(key, cached_model_data[key])

(* C27: for a user with count >= 1 rows in the rating table, one row       *)
(* included, GET /recommendations/{user_id} with n >= 1 succeeds and its   *)
(* top_rated list holds min(n, count) of the user's items by               *)
(* non-increasing rating, also when no prediction table has the user.      *)
C27_TopRatedServed ==
    (request.op = "GET /recommendations"
     /\ cached_model_data # None
     /\ request.n >= 1
     /\ Len(RequestedRows("current_ratings_df")) >= 1)
        => /\ response.status = 200
           /\ IsTopN(response.top_rated,
                     RequestedRows("current_ratings_df"), request.n)

(* the same statement for users with at least two rows in the rating       *)
(* table; not a claim                                                      *)
TopRatedServedWithTwoRows ==
    (request.op = "GET /recommendations"
     /\ cached_model_data # None
     /\ request.n >= 1
     /\ Len(RequestedRows("current_ratings_df")) >= 2)
        => /\ response.status = 200
           /\ IsTopN(response.top_rated,
                     RequestedRows("current_ratings_df"), request.n)

(* ------------- src/model/recommend.py: the model package --------------- *)
(* "rated >= 4" *)
FavouriteRating == 4

ModelRatings == {FavouriteRating - 1, FavouriteRating}

(* movies_df after astype(str), with its RangeIndex: row i is position i *)
ModelMovies(k) == [i \in 1..k |-> [movie_id |-> <<"str", i>>]]

(* cosine_sim.npy: the similarity of every pair of catalogue rows, 0 or 1, *)
(* symmetric, 1 on the diagonal                                            *)
CosineSims(k) ==
    {[i \in 1..k |-> [j \in 1..k |-> IF i = j \/ {i, j} \in similar THEN 1 ELSE 0]] :
        similar \in SUBSET {{i, j} : i, j \in 1..k}}

(* rows of user "1" for ratings_df and predictions_df, no movie twice *)
ModelRows(col, values) ==
    {[i \in DOMAIN s |->
         [c \in {"user_id", "movie_id", col} |->
             CASE c = "user_id" -> <<"str", 1>>
               [] c = "movie_id" -> <<"str", s[i][1]>>
               [] OTHER -> s[i][2]]] :
        s \in {q \in BoundedSeq(CatalogueKeys \X values, MaxRows) :
                   \A i, j \in DOMAIN q : i # j => q[i][1] # q[j][1]}}

(* df[df['user_id'] == user_id] *)
RowsOfUser(df, user_id) == SelectSeq(df, LAMBDA r : r.user_id = Str(user_id))

(* positions of the catalogue rows with the movie id *)
MovieIndex(movies_df, movie_id) ==
    {i \in DOMAIN movies_df : movies_df[i].movie_id = movie_id}

(* movie_scores after the loop over the favourites and after the scores of *)
(* the rated movies have been set to 0                                     *)
MovieScores(user_id, model_data) ==
    LET movies_df == model_data["movies_df"]
        user_ratings == RowsOfUser(model_data["ratings_df"], user_id)
        user_favorites ==
            MovieIds(SelectSeq(user_ratings,
                               LAMBDA r : r.rating >= FavouriteRating))
        rated_indices ==
            {i \in DOMAIN movies_df :
                 movies_df[i].movie_id \in Range(MovieIds(user_ratings))}
        Contribution(fav_movie_id, i) ==
            LET fav_idx == MovieIndex(movies_df, fav_movie_id)
            IN  IF fav_idx = {} THEN 0
                ELSE model_data["cosine_sim"]
                         [CHOOSE a \in fav_idx : \A b \in fav_idx : a <= b][i]
    IN  [i \in DOMAIN movies_df |->
            IF i \in rated_indices THEN 0
            ELSE SumSeq([f \in DOMAIN user_favorites |->
                            Contribution(user_favorites[f], i)])]

(* the results numpy's argsort can give: positions by ascending score; its *)
(* default sort is not stable, the order of equal scores is not specified  *)
Argsorts(scores) ==
    {p \in [DOMAIN scores -> DOMAIN scores] :
        /\ \A a, b \in DOMAIN scores : a # b => p[a] # p[b]
        /\ \A a, b \in DOMAIN scores : a < b => scores[p[a]] <= scores[p[b]]}

(* order[-n:][::-1]: -0 is 0, so n = 0 keeps every position, and a         *)
(* negative n drops the first |n| positions                                *)
LastNReversed(order, n) ==
    LET len == Len(order)
        first == IF n > 0 THEN (IF len - n > 0 THEN len - n ELSE 0) + 1
                 ELSE (IF -n < len THEN -n ELSE len) + 1
        tail == SubSeq(order, first, len)
    IN  [i \in DOMAIN tail |-> tail[Len(tail) + 1 - i]]

(* get_user_content_recommendations of the model package; argsort is the   *)
(* order movie_scores.argsort() returned                                   *)
model_get_user_content_recommendations(user_id, model_data, n, argsort) ==
    LET user_ratings == RowsOfUser(model_data["ratings_df"], user_id)
        user_favorites ==
            SelectSeq(user_ratings, LAMBDA r : r.rating >= FavouriteRating)
        top_indices == LastNReversed(argsort, n)
    IN  IF Len(user_ratings) = 0 THEN EmptyFrame
        ELSE IF user_favorites = <<>> THEN EmptyFrame
        ELSE Frame([i \in DOMAIN top_indices |->
                       model_data["movies_df"][top_indices[i]].movie_id])

(* get_user_collab_recommendations of the model package: the catalogue     *)
(* rows whose movie is among the n highest predictions, in catalogue order *)
model_get_user_collab_recommendations(user_id, model_data, n) ==
    LET user_predictions == RowsOfUser(model_data["predictions_df"], user_id)
        top_predictions == nlargest(user_predictions, n, "estimated_rating")
    IN  IF user_predictions = <<>> THEN EmptyFrame
        ELSE Frame(MovieIds(SelectSeq(model_data["movies_df"],
                 LAMBDA m : m.movie_id \in Range(MovieIds(top_predictions)))))

(* the similarity matrix of a catalogue no two movies of which are similar *)
Identity(k) == [i \in 1..k |-> [j \in 1..k |-> IF i = j THEN 1 ELSE 0]]

(* load_model_data of the model package: a catalogue with its similarity   *)
(* matrix and either the ratings or the predictions of user "1"            *)
InitModel ==
    \E k \in 1..MaxCatalogue :
    \E content \in BOOLEAN :
    \E sim \in IF content THEN CosineSims(k) ELSE {Identity(k)} :
    \E rows \in IF content THEN ModelRows("rating", ModelRatings)
                 ELSE ModelRows("estimated_rating", Ratings) :
        /\ cached_model_data =
               [movies_df |-> ModelMovies(k), cosine_sim |-> sim,
                ratings_df |-> IF content THEN rows ELSE <<>>,
                predictions_df |-> IF content THEN <<>> ELSE rows]
        /\ files = [name \in FileNames |-> <<>>]
        /\ readable = {}
        /\ phase = "serving"
        /\ request = NoRequest
        /\ response = NoResponse
        /\ load_calls = {}
        /\ pc = "idle"
        /\ futures = NoFutures
        /\ attempt = 0
        /\ sleeps = <<>>
        /\ reads = 0
        /\ predictions_dict = <<>>
        /\ earlier = <<>>

CallModelContent ==
    /\ Idle
    /\ \E u \in SourceUsers :
       \E argsort \in Argsorts(MovieScores(u, cached_model_data)) :
       \E n \in NValues :
           Call([op |-> "model_content", user_id |-> u, n |-> n],
                model_get_user_content_recommendations(
                    u, cached_model_data, n, argsort))

CallModelCollab ==
    /\ Idle
    /\ \E u \in SourceUsers, n \in NValues :
           Call([op |-> "model_collab", user_id |-> u, n |-> n],
                model_get_user_collab_recommendations(u, cached_model_data, n))

NextModel == CallModelContent \/ CallModelCollab \/ Return

SpecModel == InitModel /\ [][NextModel]_vars

(* the movies the user of the request has rated *)
RatedByUser ==
    Range(MovieIds(RowsOfUser(cached_model_data["ratings_df"], request.user_id)))

(* C28: the model-package get_user_content_recommendations never           *)
(* recommends a movie the user has already rated, for every user,          *)
(* catalogue and n, also when fewer than n unrated movies have a positive  *)
(* similarity score.                                                       *)
C28_NoRatedMovie ==
    request.op = "model_content"
        => Range(response.movie_id) \cap RatedByUser = {}

(* the model-package content ranking for n <= 0 and a user with a          *)
(* favourite: the empty result C24 asks for; not a claim                   *)
ModelContentEmptyForNonPositiveN ==
    (request.op = "model_content" /\ request.n <= 0)
        => response.movie_id = <<>>

(* the predictions of the user of the request *)
PredictionsOfUser ==
    RowsOfUser(cached_model_data["predictions_df"], request.user_id)

EstimatedRating(movie_id) ==
    (CHOOSE r \in Range(PredictionsOfUser) : r.movie_id = movie_id).estimated_rating

(* C29: the model-package get_user_collab_recommendations returns the      *)
(* user's n highest-predicted movies sorted by estimated rating in         *)
(* descending order, so that the scores combine_recommendations assigns by *)
(* row position decrease with the estimated rating.  Stated for            *)
(* predictions whose movies are all in the catalogue.                      *)
C29_SortedByEstimate ==
    (request.op = "model_collab" /\ request.n >= 1
     /\ PredictionsOfUser # <<>>
     /\ \A r \in Range(PredictionsOfUser) :
            MovieIndex(cached_model_data["movies_df"], r.movie_id) # {})
        => /\ Len(response.movie_id) = Min2(request.n, Len(PredictionsOfUser))
           /\ Range(response.movie_id) \subseteq Range(MovieIds(PredictionsOfUser))
           /\ \A i, j \in DOMAIN response.movie_id :
                  i < j => EstimatedRating(response.movie_id[i])
                               >= EstimatedRating(response.movie_id[j])

(* ------------ src/backend/preprocess_model.py: the pickling job -------- *)
(* what the three regular expressions of parse_prediction find in          *)
(* str(pred): a field is <<"digits", k>> when its pattern matches,         *)
(* <<"none", 0>> when it does not; the estimate pattern [\d.]+ also        *)
(* matches text that is no number, <<"dots", 0>>                           *)
PredictionStrings ==
    [user : {<<"digits", u>> : u \in UserKeys} \cup {<<"none", 0>>},
     item : {<<"digits", m>> : m \in ItemKeys} \cup {<<"none", 0>>},
     est : {<<"digits", r>> : r \in Ratings} \cup {<<"none", 0>>, <<"dots", 0>>}]

(* parse_prediction: <<user_id, item_id, est>>, or <<>> for None when a    *)
(* pattern does not match or float() raises                                *)
parse_prediction(pred_str) ==
    IF pred_str.user[1] = "digits" /\ pred_str.item[1] = "digits"
       /\ pred_str.est[1] # "none"
    THEN IF pred_str.est[1] = "dots" THEN <<>>
         ELSE <<<<"int", pred_str.user[2]>>, <<"int", pred_str.item[2]>>,
                pred_str.est[2]>>
    ELSE <<>>

(* preprocess_model: the dictionary pickled for the predictions of model   *)
preprocess_model(model) ==
    LET parsed == [i \in DOMAIN model |-> parse_prediction(model[i])]
        accepted == SelectSeq(parsed, LAMBDA p : p # <<>>)
        users == {accepted[i][1] : i \in DOMAIN accepted}
        Appended(user_id) ==
            LET own == SelectSeq(accepted, LAMBDA p : p[1] = user_id)
            IN  [i \in DOMAIN own |-> <<own[i][2], own[i][3]>>]
    IN  [user_id \in users |-> SortReverse(Appended(user_id))]

InitPreprocess ==
    /\ files = [name \in FileNames |-> <<>>]
    /\ readable = {}
    /\ cached_model_data = None
    /\ phase = "serving"
    /\ request = NoRequest
    /\ response = NoResponse
    /\ load_calls = {}
    /\ pc = "idle"
    /\ futures = NoFutures
    /\ attempt = 0
    /\ sleeps = <<>>
    /\ reads = 0
    /\ predictions_dict = <<>>
    /\ earlier = <<>>

(* one run of the job on the predictions of models/model.zip *)
CallPreprocess ==
    /\ Idle
    /\ \E model \in BoundedSeq(PredictionStrings, MaxRows) :
           Call([op |-> "preprocess_model", model |-> model],
                [kind |-> "pickle", dict |-> preprocess_model(model)])

NextPreprocess == CallPreprocess \/ Return

SpecPreprocess == InitPreprocess /\ [][NextPreprocess]_vars

(* the <<movie_id, rating>> of the input predictions that parse_prediction *)
(* accepts for the user with the rating, in input order                    *)
AcceptedInput(user_id, rating) ==
    LET own == SelectSeq(request.model,
                   LAMBDA p : /\ parse_prediction(p) # <<>>
                              /\ parse_prediction(p)[1] = user_id
                              /\ parse_prediction(p)[3] = rating)
    IN  [i \in DOMAIN own |->
            <<parse_prediction(own[i])[2], parse_prediction(own[i])[3]>>]

(* the entries of the user's pickled list with the rating, in list order *)
PickledWith(user_id, rating) ==
    IF user_id \in DOMAIN response.dict
    THEN SelectSeq(response.dict[user_id], LAMBDA x : x[2] = rating)
    ELSE <<>>

(* C30: preprocess_model groups the parsed predictions by user without     *)
(* loss: every input prediction parse_prediction accepts appears exactly   *)
(* once in the list of its user, rejected predictions appear nowhere, no   *)
(* user has an empty list, and every list is ordered by non-increasing     *)
(* rating with equal ratings kept in input order.                          *)
C30_GroupedWithoutLoss ==
    request.op = "preprocess_model"
        => /\ \A u \in UserKeys, r \in Ratings :
                  PickledWith(<<"int", u>>, r) = AcceptedInput(<<"int", u>>, r)
           /\ \A user_id \in DOMAIN response.dict :
                  /\ user_id \in {<<"int", u>> : u \in UserKeys}
                  /\ response.dict[user_id] # <<>>
                  /\ \A i, j \in DOMAIN response.dict[user_id] :
                         /\ response.dict[user_id][i][2] \in Ratings
                         /\ i < j => response.dict[user_id][i][2]
                                         >= response.dict[user_id][j][2]

(* two predictions of one user with the same rating, the higher movie id   *)
(* first in the input, both pickled                                        *)
C30_Witness ==
    /\ request.op = "preprocess_model"
    /\ Len(request.model) = 2
    /\ \E user_id \in DOMAIN response.dict :
           /\ Len(response.dict[user_id]) = 2
           /\ response.dict[user_id][1][2] = response.dict[user_id][2][2]
           /\ response.dict[user_id][1][1][2] > response.dict[user_id][2][1][2]

====
